---- MODULE Spec2Model ----
(***************************************************************************)
(* A model of bspatch (src/bspatch.c, lines 1-458) and of the extent-file  *)
(* layer exfile.c (src/bspatch.c, lines 460-869).                          *)
(*                                                                         *)
(* Widths are scaled: a byte has ByteBits bits (8 in the program), an      *)
(* off_t / ssize_t / int64_t word has WordBytes bytes (8 in the program)   *)
(* and an int has half the bits of an off_t (32 of 64 in the program).     *)
(* All machine arithmetic on words is two's complement, modulo 2^WordBits. *)
(***************************************************************************)
EXTENDS Integers, Sequences, FiniteSets, TLC

\* ------------------------------------------------------------------ bounds
ByteBits == 2
WordBytes == 3
MaxNew == 6
MaxOld == 2
MaxLen == 3
MaxRanges == 3
MaxEx == 3
FileLen == 3
MaxIo == 5
MaxSearchEx == 5
MaxStr == 4
MaxPairs == 3
PosFileLen == 28

\* ------------------------------------------------------- machine integers
Radix == 2 ^ ByteBits
WordBits == WordBytes * ByteBits
IntBits == WordBits \div 2
MaxOff == 2 ^ (WordBits - 1) - 1
MinOff == -(2 ^ (WordBits - 1))
MaxInt == 2 ^ (IntBits - 1) - 1
\* the control stream holds the triples that fill the largest image with the
\* longest runs
MaxTriples == (MaxNew + MaxLen - 1) \div MaxLen
MinInt == -(2 ^ (IntBits - 1))

\* off_t arithmetic: the result of a signed operation, reduced modulo 2^WordBits
Wrap(v) == ((v - MinOff) % (2 ^ WordBits)) + MinOff

\* the implicit conversion off_t -> int at a call of BZ2_bzRead(.., int len)
ToInt(v) == ((v - MinInt) % (2 ^ IntBits)) + MinInt

InOff(v) == MinOff <= v /\ v <= MaxOff

Max(a, b) == IF a >= b THEN a ELSE b
Min(a, b) == IF a <= b THEN a ELSE b

Byte == 0 .. (Radix - 1)
SignBit == Radix \div 2
WordBuf == [1 .. WordBytes -> Byte]

\* --------------------------------------------------------------- offtin
\* The successive values of y in offtin: y = buf[7] & 0x7F, then seven
\* times y = y*256 + buf[k], k = 6 .. 0 (buf[k] is buf[k+1] here).
RECURSIVE offtinAcc(_, _, _)
offtinAcc(buf, y, k) ==
  IF k = 0 THEN <<y>>
  ELSE <<y>> \o offtinAcc(buf, y * Radix + buf[k], k - 1)

offtinSteps(buf) == offtinAcc(buf, buf[WordBytes] % SignBit, WordBytes - 1)

offtinNoMask(buf) ==
  LET s == offtinAcc(buf, buf[WordBytes], WordBytes - 1)
      y == s[Len(s)]
  IN  IF buf[WordBytes] \div SignBit = 1 THEN -y ELSE y

offtin(buf) ==
  LET s == offtinSteps(buf)
      y == s[Len(s)]
  IN  IF buf[WordBytes] \div SignBit = 1 THEN -y ELSE y

\* The encoder of the patch generator (sign-magnitude, little-endian).
offtout(v) ==
  LET m == IF v < 0 THEN -v ELSE v
  IN  [k \in 1 .. WordBytes |->
         IF k < WordBytes THEN (m \div (Radix ^ (k - 1))) % Radix
         ELSE ((m \div (Radix ^ (k - 1))) % SignBit)
              + (IF v < 0 THEN SignBit ELSE 0)]

\* negative zero: magnitude 0 with the sign bit set
NegZero == [k \in 1 .. WordBytes |-> IF k = WordBytes THEN SignBit ELSE 0]


\* ============================================================== bspatch
VARIABLES
  pc,                \* position of main
  errKind,           \* how the process ended: "none", "corrupt" (errx "Corrupt patch"), "io", "args",
                     \* "crash" (a fault during a store outside the allocation of new)
  using_positioning, \* argc == 6
  header,            \* the header as read (dead after the lengths are decoded)
  newsize, oldsize,  \* ssize_t newsize, oldsize
  old, new,          \* the two buffers; new[k] = Uninit until stored
  newpos, oldpos,    \* off_t newpos, oldpos
  ctrl, ci,          \* off_t ctrl[3]; the index i of the loop that reads it
  seed,              \* selects the contents of the diff and extra streams
  cpos, dpos, epos,  \* bytes produced so far by the three decompressors (cpos in words)
  cEnd, dEnd, eEnd,  \* the decompressor has reported BZ_STREAM_END
  lastRead,          \* the last BZ2_bzRead: stream, bytes wanted, bytes it yielded, status
  maxStore,          \* 1 + the highest index of new ever stored to (0 if none)
  oldIdx,            \* the indices of old read by the additive steps
  hist,              \* the control triples processed in full
  fdNew,             \* the new file: "untouched", "created" (opened with O_CREAT)
  outBytes,          \* total length of the ranges of new handed to write/pwrite
  pwSize, pwBuf, pwCount  \* PositionedWrite: new_size, buf - new, ranges processed

patchVars == <<pc, errKind, using_positioning, header, newsize, oldsize, old, new,
               newpos, oldpos, ctrl, ci, seed, cpos, dpos, epos, cEnd, dEnd, eEnd,
               lastRead, maxStore, oldIdx, hist, fdNew, outBytes, pwSize, pwBuf,
               pwCount>>

\* the codec exercised on its own: a word, the integer it was encoded from (if any), the successive values of y in offtin, the value returned
VARIABLES cstage, cword, csrc, csteps, cout

codecVars == <<cstage, cword, csrc, csteps, cout>>

\* an extent file (exfile_t) over a descriptor
VARIABLES
  ex_arr,         \* the extents, ex_arr[k+1] = [off, len] of extent k
  curr_file_pos,  \* the tracked position of the descriptor, -1 if unknown
  curr_ex_idx,    \* current extent index
  curr_ex_pos,    \* current position within the extent
  curr_pos,       \* current logical position
  fd_pos,         \* the descriptor's file offset
  file_data,      \* the bytes of the underlying file, file_data[k+1] at offset k
  xcall           \* the last call on the view: arguments, value returned, bytes read,
                  \* position before, the system calls it issued, the fields it
                  \* left as they were, the file offsets whose byte it changed

exVars == <<ex_arr, curr_file_pos, curr_ex_idx, curr_ex_pos, curr_pos, fd_pos,
            file_data, xcall>>

\* the positions strings (argv[4], argv[5]) given to PositionedRead and
\* PositionedWrite
VARIABLES
  positions,      \* the string, positions[k+1] the character at index k
  pcall           \* the last call made with it and what it gave

posVars == <<positions, pcall>>

notPatchVars == <<codecVars, exVars, posVars>>
notCodecVars == <<patchVars, exVars, posVars>>
notExVars == <<patchVars, codecVars, posVars>>
notPosVars == <<patchVars, codecVars, exVars>>

Uninit == -1
HeaderLen == 32
Magic == "BSDIFF40"
NoRead == [s |-> "none", want |-> 0, got |-> 0, err |-> "BZ_OK"]

\* ------------------------------------------------------------- inputs
Magics == {"BSDIFF40", "BSDIFF41", "bSDIFF40"}
HdrAvail == {0, HeaderLen - 1, HeaderLen}
\* X and Y (compressed lengths) and N (new size) as they can stand in a header
HdrLenBufs == {offtout(v) : v \in {-1, 0, 1}} \cup {NegZero}
HdrNewBufs(positioning) ==
  {offtout(v) : v \in (IF positioning THEN {-1, 0, 2} ELSE (-1 .. MaxLen) \cup {MaxNew})}
    \cup {NegZero}
\* control words: add/copy lengths, and the seek distance
LenVals == (-1 .. MaxLen) \cup {MaxInt + 1, MaxOff - MaxInt - 1}
SeekVals == {-1, 0, MaxOff}
CtrlBufs(k) == IF k = 3 THEN {offtout(v) : v \in SeekVals}
               ELSE {offtout(v) : v \in LenVals} \cup {NegZero}
\* old images: every length up to MaxOld, bytes falling from Radix - 1
OldImages == {[k \in 1 .. n |-> (Radix - k) % Radix] : n \in 0 .. MaxOld}
Seeds == {1}
DiffByte(sd, k) == (sd + k + 1) % Radix
ExtraByte(sd, k) == (sd + 2 * k + 2) % Radix
PosOffs == {-1, 0}
PosLens == {1, 2, MaxOff}

\* ---------------------------------------------------------- BZ2_bzRead
\* The outcomes of BZ2_bzRead(&err, b, buf, len) on a decompressor that has
\* (ended) or has not yet reported BZ_STREAM_END and can still produce at most
\* avail bytes: n is the value returned, w the number of bytes stored to buf.
BzRead(ended, len, avail) ==
  IF len < 0 THEN {[n |-> 0, w |-> 0, err |-> "BZ_PARAM_ERROR", end |-> ended]}
  ELSE IF len = 0 THEN {[n |-> 0, w |-> 0, err |-> "BZ_OK", end |-> ended]}
  ELSE IF ended THEN {[n |-> 0, w |-> 0, err |-> "BZ_SEQUENCE_ERROR", end |-> ended]}
  ELSE {[n |-> len, w |-> len, err |-> "BZ_OK", end |-> FALSE] : k \in {0} \cap (0 .. (avail - len))}
       \cup {[n |-> k, w |-> k, err |-> "BZ_STREAM_END", end |-> TRUE] :
                k \in {0, Min(len - 1, avail), Min(len, avail)}}
       \cup {[n |-> 0, w |-> k, err |-> "BZ_DATA_ERROR", end |-> ended] :
                k \in {Min(len - 1, avail)}}

\* lines 393-394, 411, 430: (err != BZ_OK) && (err != BZ_STREAM_END) is an error
BzGoodOnlyOk(err) == err = "BZ_OK"
BzGood(err) == err \in {"BZ_OK", "BZ_STREAM_END"}

\* ------------------------------------------------------------- helpers
\* store the bytes bs (a sequence) to buf[at], buf[at+1], ...; indices outside
\* the buffer are stores outside new[0 .. newsize-1]
StoreAt(buf, at, bs) ==
  [k \in DOMAIN buf |-> IF at <= k /\ k < at + Len(bs) THEN bs[k - at + 1] ELSE buf[k]]

Stored(ms, at, n) == IF n > 0 THEN Max(ms, at + n) ELSE ms

\* line 386 allocates newsize+1 bytes for new: a store of n bytes at new+at
\* that leaves the allocation is undefined; the bytes land outside it and the
\* process either goes on or is ended by the fault (errKind "crash")
StoreOutside(at, n, ns) == n > 0 /\ (at < 0 \/ at + n > ns + 1)

Fail(kind) == pc' = "fail" /\ errKind' = kind

\* line 389: while(newpos<newsize)
LoopHeadEarly(np, ns) == IF np + 1 < ns THEN "ctrl" ELSE "close"
LoopHead(np, ns) == IF np < ns THEN "ctrl" ELSE "close"

ZeroWord == [k \in 1 .. WordBytes |-> 0]

CodecIdle ==
  cstage = "idle" /\ cword = ZeroWord /\ csrc = <<>> /\ csteps = <<>> /\ cout = 0

NoCall == [op |-> "open", size |-> 0, ret |-> 0, data |-> <<>>, from |-> 0,
           log |-> <<>>, kept |-> {}, changed |-> {}]

ExIdle ==
  /\ ex_arr = <<>> /\ curr_file_pos = 0 /\ curr_ex_idx = 0 /\ curr_ex_pos = 0
  /\ curr_pos = 0 /\ fd_pos = 0 /\ file_data = <<>> /\ xcall = NoCall

NoPosCall == [op |-> "none"]

PosIdle == positions = <<>> /\ pcall = NoPosCall

PatchStart ==
  /\ pc = "start" /\ errKind = "none"
  /\ header = <<>>
  /\ newsize = 0 /\ oldsize = 0 /\ old = <<>> /\ new = <<>>
  /\ newpos = 0 /\ oldpos = 0 /\ ctrl = <<0, 0, 0>> /\ ci = 0
  /\ cpos = 0 /\ dpos = 0 /\ epos = 0
  /\ cEnd = FALSE /\ dEnd = FALSE /\ eEnd = FALSE
  /\ lastRead = NoRead
  /\ maxStore = 0 /\ oldIdx = {} /\ hist = <<>>
  /\ fdNew = "untouched" /\ outBytes = 0
  /\ pwSize = 0 /\ pwBuf = 0 /\ pwCount = 0

Init ==
  /\ PatchStart
  /\ using_positioning \in BOOLEAN
  /\ seed \in Seeds
  /\ CodecIdle /\ ExIdle /\ PosIdle

\* line 346: (bzctrllen<0) || (bzdatalen<0) || (newsize<0)
HeaderLengthsBadNoNew(cl, dl, ns) == cl < 0 \/ dl < 0
HeaderLengthsBad(cl, dl, ns) == cl < 0 \/ dl < 0 \/ ns < 0

\* lines 331-347: read the header, check the magic, decode and check the lengths
ReadHeader ==
  /\ pc = "start"
  /\ \E avail \in HdrAvail, magic \in Magics, bx \in HdrLenBufs, by \in HdrLenBufs,
        bn \in HdrNewBufs(using_positioning) :
       /\ header' = [avail |-> avail, magic |-> magic, X |-> bx, Y |-> by, N |-> bn]
       /\ IF avail < HeaderLen THEN Fail("corrupt") /\ UNCHANGED newsize
          ELSE IF magic # Magic THEN Fail("corrupt") /\ UNCHANGED newsize
          ELSE LET bzctrllen == offtin(bx)
                   bzdatalen == offtin(by)
                   ns == offtin(bn)
               IN  IF HeaderLengthsBad(bzctrllen, bzdatalen, ns)
                   THEN Fail("corrupt") /\ UNCHANGED newsize
                   ELSE pc' = "open" /\ newsize' = ns /\ UNCHANGED errKind
  /\ UNCHANGED notPatchVars
  /\ UNCHANGED <<using_positioning, oldsize, old, new, newpos, oldpos, ctrl, ci, seed,
                 cpos, dpos, epos, cEnd, dEnd, eEnd, lastRead, maxStore, oldIdx,
                 hist, fdNew, outBytes, pwSize, pwBuf, pwCount>>

\* lines 349-386: reopen the patch at the three streams, read the old file,
\* allocate new (newsize + 1 bytes, not initialised)
OpenAndReadOld ==
  /\ pc = "open"
  /\ header' = <<>>
  /\ \/ /\ Fail("io")
        /\ UNCHANGED <<oldsize, old, new, newpos, oldpos>>
     \/ \E img \in OldImages :
          /\ old' = img /\ oldsize' = Len(img)
          /\ new' = [k \in 0 .. (newsize - 1) |-> Uninit]
          /\ oldpos' = 0 /\ newpos' = 0
          /\ pc' = LoopHead(0, newsize)
          /\ UNCHANGED errKind
  /\ UNCHANGED notPatchVars
  /\ UNCHANGED <<using_positioning, newsize, ctrl, ci, seed, cpos, dpos, epos, cEnd,
                 dEnd, eEnd, lastRead, maxStore, oldIdx, hist, fdNew, outBytes,
                 pwSize, pwBuf, pwCount>>


\* lines 391-397: one round of the loop that reads the three control words
ReadCtrlWord ==
  /\ pc = "ctrl"
  /\ \E r \in BzRead(cEnd, WordBytes, WordBytes * (3 * MaxTriples - cpos)),
        buf \in CtrlBufs(ci + 1) :
       /\ lastRead' = [s |-> "ctrl", want |-> WordBytes, got |-> r.n, err |-> r.err]
       /\ cEnd' = r.end
       /\ IF r.n < WordBytes \/ ~BzGood(r.err)
          THEN Fail("corrupt") /\ UNCHANGED <<ctrl, ci, cpos>>
          ELSE /\ ctrl' = [ctrl EXCEPT ![ci + 1] = offtin(buf)]
               /\ cpos' = cpos + 1
               /\ IF ci = 2 THEN pc' = "check" /\ ci' = 0
                            ELSE pc' = "ctrl" /\ ci' = ci + 1
               /\ UNCHANGED errKind
  /\ UNCHANGED notPatchVars
  /\ UNCHANGED <<using_positioning, header, newsize, oldsize, old, new, newpos,
                 oldpos, seed, dpos, epos, dEnd, eEnd, maxStore, oldIdx, hist,
                 fdNew, outBytes, pwSize, pwBuf, pwCount>>

\* lines 400-401: a negative add or copy length is a corrupt patch
CtrlNegativeAddOnly(c) == c[1] < 0
CtrlNegative(c) == c[1] < 0 \/ c[2] < 0

CheckCtrl ==
  /\ pc = "check"
  /\ IF CtrlNegative(ctrl) THEN Fail("corrupt")
     ELSE pc' = "diff" /\ UNCHANGED errKind
  /\ UNCHANGED notPatchVars
  /\ UNCHANGED <<using_positioning, header, newsize, oldsize, old, new, newpos,
                 oldpos, ctrl, ci, seed, cpos, dpos, epos, cEnd, dEnd, eEnd,
                 lastRead, maxStore, oldIdx, hist, fdNew, outBytes, pwSize, pwBuf,
                 pwCount>>

\* lines 405 and 424: if(newpos+ctrl[k]>newsize) errx(...), in off_t arithmetic
SanityFails(np, len, ns) == Wrap(np + len) > ns

\* line 416: (oldpos+i>=0) && (oldpos+i<oldsize), in off_t arithmetic
OldInRangeNoLow(p, size) == p < size
OldInRange(p, size) == p >= 0 /\ p < size

\* old[p]; the guard of line 416 keeps p inside the buffer
OldAt(p) == IF p + 1 \in DOMAIN old THEN old[p + 1] ELSE 0

\* lines 415-417: add old data to the diff string
AddOldFromStart(buf, np, op, x) ==
  [k \in DOMAIN buf |->
     IF np <= k /\ k < np + x /\ OldInRange(Wrap(k - np), oldsize)
     THEN (buf[k] + OldAt(Wrap(k - np))) % Radix
     ELSE buf[k]]

AddOld(buf, np, op, x) ==
  [k \in DOMAIN buf |->
     IF np <= k /\ k < np + x /\ OldInRange(Wrap(op + (k - np)), oldsize)
     THEN (buf[k] + OldAt(Wrap(op + (k - np)))) % Radix
     ELSE buf[k]]

OldIndicesRead(op, x) ==
  {Wrap(op + i) : i \in {j \in 0 .. (x - 1) : OldInRange(Wrap(op + j), oldsize)}}

\* lines 404-421: sanity check, read the diff string, add the old data, adjust
DiffStep ==
  /\ pc = "diff"
  /\ IF SanityFails(newpos, ctrl[1], newsize)
     THEN /\ Fail("corrupt")
          /\ UNCHANGED <<new, newpos, oldpos, dpos, dEnd, lastRead, maxStore, oldIdx>>
     ELSE \E r \in BzRead(dEnd, ToInt(ctrl[1]), MaxOff) :
            LET bs == [k \in 1 .. r.w |-> DiffByte(seed, dpos + k - 1)]
                nb == StoreAt(new, newpos, bs)
            IN  /\ lastRead' = [s |-> "diff", want |-> ctrl[1], got |-> r.n, err |-> r.err]
                /\ dEnd' = r.end
                /\ dpos' = dpos + r.w
                /\ maxStore' = Stored(maxStore, newpos, r.w)
                /\ \/ IF r.n < ctrl[1] \/ ~BzGood(r.err)
                      THEN /\ Fail("corrupt")
                           /\ new' = nb
                           /\ UNCHANGED <<newpos, oldpos, oldIdx>>
                      ELSE /\ new' = AddOld(nb, newpos, oldpos, ctrl[1])
                           /\ oldIdx' = oldIdx \cup OldIndicesRead(oldpos, ctrl[1])
                           /\ newpos' = Wrap(newpos + ctrl[1])
                           /\ oldpos' = Wrap(oldpos + ctrl[1])
                           /\ pc' = "extra"
                           /\ UNCHANGED errKind
                   \/ /\ StoreOutside(newpos, r.w, newsize)
                      /\ Fail("crash")
                      /\ new' = nb
                      /\ UNCHANGED <<newpos, oldpos, oldIdx>>
  /\ UNCHANGED notPatchVars
  /\ UNCHANGED <<using_positioning, header, newsize, oldsize, old, ctrl, ci, seed,
                 cpos, epos, cEnd, eEnd, hist, fdNew, outBytes, pwSize, pwBuf,
                 pwCount>>

\* lines 423-435: sanity check, read the extra string, adjust; then the loop test
ExtraStep ==
  /\ pc = "extra"
  /\ IF SanityFails(newpos, ctrl[2], newsize)
     THEN /\ Fail("corrupt")
          /\ UNCHANGED <<new, newpos, oldpos, epos, eEnd, lastRead, maxStore, hist>>
     ELSE \E r \in BzRead(eEnd, ToInt(ctrl[2]), MaxOff) :
            LET bs == [k \in 1 .. r.w |-> ExtraByte(seed, epos + k - 1)]
            IN  /\ lastRead' = [s |-> "extra", want |-> ctrl[2], got |-> r.n, err |-> r.err]
                /\ eEnd' = r.end
                /\ epos' = epos + r.w
                /\ maxStore' = Stored(maxStore, newpos, r.w)
                /\ new' = StoreAt(new, newpos, bs)
                /\ \/ IF r.n < ctrl[2] \/ ~BzGood(r.err)
                      THEN /\ Fail("corrupt")
                           /\ UNCHANGED <<newpos, oldpos, hist>>
                      ELSE /\ newpos' = Wrap(newpos + ctrl[2])
                           /\ oldpos' = Wrap(oldpos + ctrl[3])
                           /\ hist' = Append(hist, ctrl)
                           /\ pc' = LoopHead(Wrap(newpos + ctrl[2]), newsize)
                           /\ UNCHANGED errKind
                   \/ /\ StoreOutside(newpos, r.w, newsize)
                      /\ Fail("crash")
                      /\ UNCHANGED <<newpos, oldpos, hist>>
  /\ UNCHANGED notPatchVars
  /\ UNCHANGED <<using_positioning, header, newsize, oldsize, old, ctrl, ci, seed,
                 cpos, dpos, cEnd, dEnd, oldIdx, fdNew, outBytes, pwSize, pwBuf,
                 pwCount>>

\* lines 438-443: close the decompressors and the three handles of the patch
CloseStreams ==
  /\ pc = "close"
  /\ \/ Fail("io")
     \/ pc' = "write" /\ UNCHANGED errKind
  /\ UNCHANGED notPatchVars
  /\ UNCHANGED <<using_positioning, header, newsize, oldsize, old, new, newpos,
                 oldpos, ctrl, ci, seed, cpos, dpos, epos, cEnd, dEnd, eEnd,
                 lastRead, maxStore, oldIdx, hist, fdNew, outBytes, pwSize, pwBuf,
                 pwCount>>

\* lines 446-449: open(O_CREAT|O_TRUNC|O_WRONLY), write(fd,new,newsize), close
WriteNew ==
  /\ pc = "write" /\ ~using_positioning
  /\ \/ Fail("io") /\ UNCHANGED <<fdNew, outBytes>>
     \/ Fail("io") /\ fdNew' = "created" /\ outBytes' = newsize
     \/ pc' = "done" /\ fdNew' = "created" /\ outBytes' = newsize /\ UNCHANGED errKind
  /\ UNCHANGED notPatchVars
  /\ UNCHANGED <<using_positioning, header, newsize, oldsize, old, new, newpos,
                 oldpos, ctrl, ci, seed, cpos, dpos, epos, cEnd, dEnd, eEnd,
                 lastRead, maxStore, oldIdx, hist, pwSize, pwBuf, pwCount>>

\* lines 235-241: PositionedWrite validates the positions and opens the file
PwOpen ==
  /\ pc = "write" /\ using_positioning
  /\ \/ Fail("args") /\ UNCHANGED <<fdNew, pwSize, pwBuf, pwCount>>
     \/ Fail("io") /\ UNCHANGED <<fdNew, pwSize, pwBuf, pwCount>>
     \/ /\ pc' = "pwloop" /\ fdNew' = "created"
        /\ pwSize' = newsize /\ pwBuf' = 0 /\ pwCount' = 0
        /\ UNCHANGED errKind
  /\ UNCHANGED notPatchVars
  /\ UNCHANGED <<using_positioning, header, newsize, oldsize, old, new, newpos,
                 oldpos, ctrl, ci, seed, cpos, dpos, epos, cEnd, dEnd, eEnd,
                 lastRead, maxStore, oldIdx, hist, outBytes>>

\* pwrite(fd, buf, length, offset) can return length only for a length the
\* kernel transfers in one call
PwriteCanSucceed(length) == length <= MaxInt

\* lines 243-265: one range of the positions string
PwRange ==
  /\ pc = "pwloop" /\ pwCount < MaxRanges
  /\ \E offset \in PosOffs, length \in PosLens :
       \/ /\ offset >= 0
          /\ Fail("io")
          /\ outBytes' = outBytes + length
          /\ UNCHANGED <<pwSize, pwBuf, pwCount>>
       \/ /\ offset < 0 \/ PwriteCanSucceed(length)
          /\ outBytes' = outBytes + length
          /\ pwBuf' = Wrap(pwBuf + length)
          /\ pwSize' = Wrap(pwSize - length)
          /\ pwCount' = pwCount + 1
          /\ UNCHANGED <<pc, errKind>>
  /\ UNCHANGED notPatchVars
  /\ UNCHANGED <<using_positioning, header, newsize, oldsize, old, new, newpos,
                 oldpos, ctrl, ci, seed, cpos, dpos, epos, cEnd, dEnd, eEnd,
                 lastRead, maxStore, oldIdx, hist, fdNew>>

\* lines 245-247 and 266-269: the string is used up; the lengths must add up
PwEnd ==
  /\ pc = "pwloop"
  /\ IF pwSize # 0 THEN Fail("args") ELSE pc' = "done" /\ UNCHANGED errKind
  /\ UNCHANGED notPatchVars
  /\ UNCHANGED <<using_positioning, header, newsize, oldsize, old, new, newpos,
                 oldpos, ctrl, ci, seed, cpos, dpos, epos, cEnd, dEnd, eEnd,
                 lastRead, maxStore, oldIdx, hist, fdNew, outBytes, pwSize, pwBuf,
                 pwCount>>

Next ==
  \/ ReadHeader \/ OpenAndReadOld \/ ReadCtrlWord \/ CheckCtrl \/ DiffStep
  \/ ExtraStep \/ CloseStreams \/ WriteNew \/ PwOpen \/ PwRange \/ PwEnd

vars == <<patchVars, codecVars, exVars, posVars>>

Spec == Init /\ [][Next]_vars

\* main is one sequential process: a step that can be taken is taken
LiveSpec == Init /\ [][Next]_vars /\ WF_vars(Next)

\* ============================================================ the codec
\* offtin applied to every word, and to the encoding of every integer
CodecInit ==
  /\ PatchStart /\ using_positioning = FALSE /\ seed = 0
  /\ CodecIdle /\ ExIdle /\ PosIdle

TakeWord ==
  /\ cstage = "idle"
  /\ \E b \in WordBuf : cword' = b
  /\ csrc' = <<>> /\ cstage' = "word"
  /\ UNCHANGED <<csteps, cout>>
  /\ UNCHANGED notCodecVars

Encode ==
  /\ cstage = "idle"
  /\ \E v \in (-MaxOff) .. MaxOff : cword' = offtout(v) /\ csrc' = <<v>>
  /\ cstage' = "word"
  /\ UNCHANGED <<csteps, cout>>
  /\ UNCHANGED notCodecVars

Decode ==
  /\ cstage = "word"
  /\ cout' = offtin(cword)
  /\ csteps' = offtinSteps(cword)
  /\ cstage' = "decoded"
  /\ UNCHANGED <<cword, csrc>>
  /\ UNCHANGED notCodecVars

CodecNext == TakeWord \/ Encode \/ Decode

CodecSpec == CodecInit /\ [][CodecNext]_vars


\* ====================================================== extent files
ex_count == Len(ex_arr)
ExOff(k) == ex_arr[k + 1].off
ExLen(k) == ex_arr[k + 1].len

\* lines 831-837: prefix_len_arr[k].prec and .total
RECURSIVE PrefixTotal(_)
PrefixTotal(k) == IF k < 0 THEN 0 ELSE PrefixTotal(k - 1) + ExLen(k)
PrefixPrec(k) == PrefixTotal(k - 1)
total_ex_len == PrefixTotal(ex_count - 1)

\* ------------------------------------------------------------- inputs
ExtentSet == {[off |-> -1, len |-> 2], [off |-> 0, len |-> 2],
              [off |-> 2, len |-> 1], [off |-> 1, len |-> 0]}
Injective(f) == \A a, b \in DOMAIN f : f[a] = f[b] => a = b
ExArrs == UNION {{f \in [1 .. n -> ExtentSet] : Injective(f)} : n \in 1 .. MaxEx}
File0 == [k \in 1 .. FileLen |-> ((k - 1) % (Radix - 1)) + 1]
IoSizes == {0, 1, MaxIo}
\* the bytes a caller writes
WriteByte == 0

\* ----------------------------------------------------------- ex_arr_search
\* A point of the search: the phase, the bounds i and j on arrival at the test
\* of the loop, and the index that test reads prefix_len_arr at (-1: none, the
\* test ends at its first half)
SearchPoint(ph, i, j, ix) == [ph |-> ph, i |-> i, j |-> j, ix |-> ix]

\* lines 585-590: go left in growing leaps
RECURSIVE SearchLeft(_, _, _, _, _)
SearchLeft(pos, i, j, leap, tr) ==
  LET t == Append(tr, SearchPoint("left", i, j, IF i > 0 THEN i ELSE -1))
  IN  IF i > 0 /\ pos < PrefixPrec(i)
      THEN SearchLeft(pos, IF i - leap < 0 THEN 0 ELSE i - leap, i - 1, 2 * leap, t)
      ELSE [i |-> i, j |-> j, leap |-> leap, tr |-> t]

\* lines 592-597: go right in growing leaps
RECURSIVE SearchRight(_, _, _, _, _)
SearchRight(pos, i, j, leap, tr) ==
  LET t == Append(tr, SearchPoint("right", i, j, IF j < ex_count - 1 THEN j ELSE -1))
  IN  IF j < ex_count - 1 /\ pos >= PrefixTotal(j)
      THEN SearchRight(pos, j + 1,
                       IF j + leap > ex_count - 1 THEN ex_count - 1 ELSE j + leap,
                       2 * leap, t)
      ELSE [i |-> i, j |-> j, leap |-> leap, tr |-> t]

\* lines 600-609: binary search between i and j
RECURSIVE SearchBinaryLax(_, _, _, _)
SearchBinaryLax(pos, i, j, tr) ==
  LET k == (i + j) \div 2
      t == Append(tr, SearchPoint("binary", i, j, k))
  IN  IF pos < PrefixPrec(k) THEN SearchBinaryLax(pos, i, k - 1, t)
      ELSE IF pos > PrefixTotal(k) THEN SearchBinaryLax(pos, k + 1, j, t)
      ELSE [k |-> k, tr |-> t]

RECURSIVE SearchBinary(_, _, _, _)
SearchBinary(pos, i, j, tr) ==
  LET k == (i + j) \div 2
      t == Append(tr, SearchPoint("binary", i, j, k))
  IN  IF pos < PrefixPrec(k) THEN SearchBinary(pos, i, k - 1, t)
      ELSE IF pos >= PrefixTotal(k) THEN SearchBinary(pos, k + 1, j, t)
      ELSE [k |-> k, tr |-> t]

\* lines 566-612, with the points passed
SearchRun(pos, init_ex_idx) ==
  LET init == IF init_ex_idx = ex_count THEN ex_count - 1 ELSE init_ex_idx
      l == SearchLeft(pos, init, init, 1, <<>>)
      r == SearchRight(pos, l.i, l.j, l.leap, l.tr)
  IN  SearchBinary(pos, r.i, r.j, r.tr)

\* lines 566-612
ex_arr_search(pos, init_ex_idx) == SearchRun(pos, init_ex_idx).k

\* ------------------------------------------------------------- exfile_io
\* lines 640-647: advance to the next extent of non-zero length; idx = ex_count
\* when there is none
RECURSIVE SkipEmpty(_, _, _)
SkipEmpty(idx, pos, rem) ==
  IF rem # 0 THEN [idx |-> idx, pos |-> pos, rem |-> rem]
  ELSE IF idx + 1 = ex_count THEN [idx |-> idx + 1, pos |-> 0, rem |-> 0]
  ELSE SkipEmpty(idx + 1, 0, ExLen(idx + 1))

\* read(fd, buf, count) at offset at: the values it can return
ReadReturns(fdata, at, count) ==
  LET full == Max(0, Min(count, Len(fdata) - at))
  IN  {-1, full} \cup (IF full > 0 THEN {full - 1} ELSE {})

\* write(fd, buf, count): the values it can return
WriteReturns(count) == {-1, count} \cup (IF count > 0 THEN {count - 1} ELSE {})

FileBytes(fdata, at, n) == [k \in 1 .. n |-> fdata[at + k]]

FileWrite(fdata, at, n) ==
  [k \in 1 .. Max(Len(fdata), at + n) |->
     IF at < k /\ k <= at + n THEN WriteByte
     ELSE IF k <= Len(fdata) THEN fdata[k] ELSE 0]

\* lines 624-631
error_ret_val_same(do_read) == -1
error_ret_val(do_read) == IF do_read THEN -1 ELSE 0

\* lines 654: the descriptor is repositioned when the tracked position differs
NeedsSeekNever(cfp, file_pos) == FALSE
NeedsSeek(cfp, file_pos) == cfp # file_pos

\* lines 680-684: the update of the positions after an I/O of io_bytes
AdvancePosNone(v, io_bytes) == v
AdvancePos(v, io_bytes) == v + io_bytes

\* lines 681-682: curr_file_pos moves only with a real extent
FilePosAfterAlways(is_real_ex, cfp, io_bytes) == AdvancePos(cfp, io_bytes)
FilePosAfter(is_real_ex, cfp, io_bytes) ==
  IF is_real_ex THEN AdvancePos(cfp, io_bytes) ELSE cfp

\* line 665: the count of one underlying I/O
IoCountWhole(size, curr_ex_rem_len) == size
IoCount(size, curr_ex_rem_len) == Min(size, curr_ex_rem_len)

\* line 688: the call ends when the extent was not done to its end;
\* curr_ex_rem_len is a size_t, above 0 unless it is 0
StopsInExtentAlways(curr_ex_rem_len) == TRUE
StopsInExtent(curr_ex_rem_len) == curr_ex_rem_len # 0

\* what the log keeps of a system call: the call, the offset it acts at, the
\* value returned, and where the view stood: the logical position, the tracked
\* and the actual descriptor offset before the call, the bytes done so far
Sys(c, at, count, ret, st0, st) ==
  [c |-> c, at |-> at, count |-> count, ret |-> ret, lpos |-> st.cpos,
   cfp |-> st0.cfp, fd |-> st0.fd, done |-> st.total]

\* lines 638-696: the loop of exfile_io from the state st (the cookie's fields,
\* the descriptor and the file, the bytes still wanted, the bytes left in the
\* current extent, the total so far); the set of states it can end in
RECURSIVE IoLoop(_, _)
IoLoop(st, do_read) ==
  IF st.size = 0 THEN {st}
  ELSE
    LET sk == SkipEmpty(st.idx, st.pos, st.rem)
        s1 == [st EXCEPT !.idx = sk.idx, !.pos = sk.pos, !.rem = sk.rem]
    IN
    IF sk.idx = ex_count THEN {s1}
    ELSE
      LET is_real_ex == ExOff(s1.idx) >= 0
          file_pos == ExOff(s1.idx) + s1.pos
          seeks == is_real_ex /\ NeedsSeek(s1.cfp, file_pos)
          \* lines 655-658: the lseek fails
          seekFailed ==
            [s1 EXCEPT !.cfp = -1,
                       !.total = IF s1.total # 0 THEN s1.total ELSE error_ret_val(do_read),
                       !.log = Append(s1.log, Sys("lseek", file_pos, 0, -1, s1, s1))]
          \* line 659
          s2 == IF seeks
                THEN [s1 EXCEPT !.cfp = file_pos, !.fd = file_pos,
                                !.log = Append(s1.log,
                                   Sys("lseek", file_pos, 0, file_pos, s1, s1))]
                ELSE s1
          io_count == IoCount(s2.size, s2.rem)
          returns == IF ~is_real_ex THEN {io_count}
                     ELSE IF do_read THEN ReadReturns(s2.file, s2.fd, io_count)
                     ELSE WriteReturns(io_count)
          After(io_bytes) ==
            LET lg == IF is_real_ex
                      THEN Append(s2.log, Sys(IF do_read THEN "read" ELSE "write",
                                              s2.fd, io_count, io_bytes, s1, s2))
                      ELSE s2.log
            IN
            IF io_bytes < 0
            THEN \* lines 673-677
                 {[s2 EXCEPT !.total = IF s2.total = 0 THEN error_ret_val(do_read)
                                       ELSE s2.total,
                             !.log = lg]}
            ELSE
              LET s3 == [s2 EXCEPT
                           !.total = s2.total + io_bytes,
                           !.cfp = FilePosAfter(is_real_ex, s2.cfp, io_bytes),
                           !.fd = IF is_real_ex THEN s2.fd + io_bytes ELSE s2.fd,
                           !.pos = AdvancePos(s2.pos, io_bytes),
                           !.cpos = AdvancePos(s2.cpos, io_bytes),
                           !.rem = s2.rem - io_bytes,
                           !.file = IF is_real_ex /\ ~do_read
                                    THEN FileWrite(s2.file, s2.fd, io_bytes)
                                    ELSE s2.file,
                           !.data = IF ~do_read THEN s2.data
                                    ELSE IF is_real_ex
                                    THEN s2.data \o FileBytes(s2.file, s2.fd, io_bytes)
                                    ELSE s2.data \o [k \in 1 .. io_bytes |-> 0],
                           !.log = lg]
              IN  IF StopsInExtent(s3.rem) THEN {s3}
                  ELSE IoLoop([s3 EXCEPT !.size = s3.size - io_bytes], do_read)
      IN  (IF seeks THEN {seekFailed} ELSE {})
          \cup UNION {After(b) : b \in returns}

\* lines 617-697
exfile_io(do_read, size) ==
  IF curr_ex_idx = ex_count
  THEN {[idx |-> curr_ex_idx, pos |-> curr_ex_pos, cpos |-> curr_pos,
         cfp |-> curr_file_pos, fd |-> fd_pos, file |-> file_data, size |-> size,
         rem |-> 0, total |-> 0, data |-> <<>>, log |-> <<>>]}
  ELSE IoLoop([idx |-> curr_ex_idx, pos |-> curr_ex_pos, cpos |-> curr_pos,
               cfp |-> curr_file_pos, fd |-> fd_pos, file |-> file_data,
               size |-> size, rem |-> ExLen(curr_ex_idx) - curr_ex_pos,
               total |-> 0, data |-> <<>>, log |-> <<>>], do_read)

\* what has after a call the value it had before it: the cursor (curr_ex_idx,
\* curr_ex_pos and curr_pos), the tracked position, the descriptor's offset, the
\* file
Kept(idx, pos, lpos, cfp, fd, file) ==
  (IF idx = curr_ex_idx /\ pos = curr_ex_pos /\ lpos = curr_pos
   THEN {"cursor"} ELSE {})
  \cup (IF cfp = curr_file_pos THEN {"curr_file_pos"} ELSE {})
  \cup (IF fd = fd_pos THEN {"fd_pos"} ELSE {})
  \cup (IF file = file_data THEN {"file_data"} ELSE {})

\* the offsets at which the file has after a call another byte than before, or
\* a byte where it had none
Changed(file) ==
  {k \in 0 .. (Max(Len(file), Len(file_data)) - 1) :
     \/ k >= Len(file) \/ k >= Len(file_data)
     \/ file[k + 1] # file_data[k + 1]}

\* lines 831-849: exfile_open computes the prefix lengths and sets the positions;
\* curr_file_pos = lseek(fd, 0, SEEK_CUR)
ExInit ==
  /\ PatchStart /\ using_positioning = FALSE /\ seed = 0
  /\ CodecIdle
  /\ ex_arr \in ExArrs
  /\ file_data = File0
  /\ fd_pos = 1
  /\ curr_file_pos \in {fd_pos, -1}
  /\ curr_ex_idx = 0 /\ curr_ex_pos = 0 /\ curr_pos = 0
  /\ xcall = NoCall
  /\ PosIdle

IoCall(do_read, size) ==
  \E e \in exfile_io(do_read, size) :
     /\ curr_ex_idx' = e.idx /\ curr_ex_pos' = e.pos /\ curr_pos' = e.cpos
     /\ curr_file_pos' = e.cfp /\ fd_pos' = e.fd /\ file_data' = e.file
     /\ xcall' = [op |-> IF do_read THEN "read" ELSE "write", size |-> size,
                  ret |-> e.total, data |-> e.data, from |-> curr_pos,
                  log |-> e.log,
                  kept |-> Kept(e.idx, e.pos, e.cpos, e.cfp, e.fd, e.file),
                  changed |-> Changed(e.file)]
     /\ UNCHANGED ex_arr
     /\ UNCHANGED notExVars

\* lines 702-704
exfile_read == \E size \in IoSizes : IoCall(TRUE, size)

\* lines 710-712
exfile_write == \E size \in IoSizes \ {0} : IoCall(FALSE, size)

\* lines 722-726: the absolute target, in off64_t arithmetic; a sum that
\* overflows takes the two's-complement value
SeekTargetNoCur(offset, whence) ==
  IF whence = "SEEK_END" THEN Wrap(offset + total_ex_len) ELSE offset
SeekTargetNoEnd(offset, whence) ==
  IF whence = "SEEK_CUR" THEN Wrap(offset + curr_pos) ELSE offset
SeekTarget(offset, whence) ==
  IF whence = "SEEK_CUR" THEN Wrap(offset + curr_pos)
  ELSE IF whence = "SEEK_END" THEN Wrap(offset + total_ex_len)
  ELSE offset

\* lines 746-749
SeekExPosWhole(new_pos, new_ex_idx) ==
  IF new_ex_idx < ex_count THEN new_pos ELSE 0
SeekExPos(new_pos, new_ex_idx) ==
  IF new_ex_idx < ex_count THEN new_pos - PrefixPrec(new_ex_idx) ELSE 0

\* line 734: the markers are set anew only when the target is another position
SeekMovesAlways(new_pos, cp) == TRUE
SeekMoves(new_pos, cp) == new_pos # cp

\* the calls of exfile_seek made here
SeekCalls ==
  {<<0, "SEEK_SET">>, <<2, "SEEK_SET">>, <<MinOff, "SEEK_SET">>,
   <<-1, "SEEK_CUR">>, <<MaxOff, "SEEK_CUR">>,
   <<0, "SEEK_END">>, <<-1, "SEEK_END">>, <<MaxOff, "SEEK_END">>}

\* lines 718-755
exfile_seek ==
  \E sc \in SeekCalls :
    LET offset == sc[1]
        whence == sc[2]
        new_pos == SeekTarget(offset, whence)
        Call(ret) ==
          [op |-> "seek", size |-> offset, ret |-> ret, data |-> <<>>,
           from |-> curr_pos, log |-> <<whence>>,
           kept |-> Kept(curr_ex_idx', curr_ex_pos', curr_pos', curr_file_pos',
                         fd_pos', file_data'),
           changed |-> Changed(file_data')]
    IN  /\ UNCHANGED <<ex_arr, curr_file_pos, fd_pos, file_data>>
        /\ IF new_pos < 0 \/ new_pos > total_ex_len
           THEN /\ UNCHANGED <<curr_ex_idx, curr_ex_pos, curr_pos>>
                /\ xcall' = Call(-1)
           ELSE /\ IF SeekMoves(new_pos, curr_pos)
                   THEN LET new_ex_idx ==
                              IF new_pos = total_ex_len THEN ex_count
                              ELSE IF new_pos # 0
                                   THEN ex_arr_search(new_pos, curr_ex_idx)
                                   ELSE 0
                        IN  /\ curr_ex_idx' = new_ex_idx
                            /\ curr_ex_pos' = SeekExPos(new_pos, new_ex_idx)
                            /\ curr_pos' = new_pos
                   ELSE UNCHANGED <<curr_ex_idx, curr_ex_pos, curr_pos>>
                /\ xcall' = Call(new_pos)
        /\ UNCHANGED notExVars

ExNext == exfile_read \/ exfile_write \/ exfile_seek

ExSpec == ExInit /\ [][ExNext]_vars

\* ----------------------------------------- ex_arr_search on its own
\* extent arrays for the search: only the lengths matter
SearchLens == {0, 1, 2}
SearchArrs ==
  UNION {{[k \in 1 .. n |-> [off |-> 0, len |-> f[k]]] : f \in [1 .. n -> SearchLens]} :
         n \in 1 .. MaxSearchEx}

\* lines 566-579: an array of ex_count >= 1 extents with L > 0, as exfile_open
\* leaves it
SearchInit ==
  /\ PatchStart /\ using_positioning = FALSE /\ seed = 0
  /\ CodecIdle
  /\ ex_arr \in SearchArrs
  /\ total_ex_len > 0
  /\ curr_file_pos = 0 /\ curr_ex_idx = 0 /\ curr_ex_pos = 0 /\ curr_pos = 0
  /\ fd_pos = 0 /\ file_data = <<>> /\ xcall = NoCall
  /\ PosIdle

\* lines 566-612: one call, for any pos < L and any init_ex_idx <= ex_count
SearchCall ==
  /\ \E pos \in 0 .. (total_ex_len - 1), init_ex_idx \in 0 .. ex_count :
       LET r == SearchRun(pos, init_ex_idx)
       IN  xcall' = [op |-> "search", size |-> pos, ret |-> r.k, data |-> <<>>,
                     from |-> init_ex_idx, log |-> r.tr, kept |-> {}, changed |-> {}]
  /\ UNCHANGED <<ex_arr, curr_file_pos, curr_ex_idx, curr_ex_pos, curr_pos, fd_pos,
                 file_data>>
  /\ UNCHANGED notExVars

SearchNext == SearchCall

SearchSpec == SearchInit /\ [][SearchNext]_vars

\* ================================================== positions strings
\* ------------------------------------------------------ characters
Digits == {"0", "1", "2", "3", "4", "5", "6", "7", "8", "9"}
OctDigits == {"0", "1", "2", "3", "4", "5", "6", "7"}
isdigit(c) == c \in Digits
DigitVal(c) ==
  CASE c = "0" -> 0 [] c = "1" -> 1 [] c = "2" -> 2 [] c = "3" -> 3 [] c = "4" -> 4
    [] c = "5" -> 5 [] c = "6" -> 6 [] c = "7" -> 7 [] c = "8" -> 8 [] c = "9" -> 9

\* the terminating '\0', and the null pointer
Nul == "NUL"
NullPtr == -1

\* the character at index p of the string s (s[p] in the program)
CharAt(s, p) == IF p < Len(s) THEN s[p + 1] ELSE Nul

\* the index after the run of characters of the set ds that starts at index p
RECURSIVE RunEnd(_, _, _)
RunEnd(s, p, ds) == IF CharAt(s, p) \in ds THEN RunEnd(s, p + 1, ds) ELSE p

\* the value in base b of the digits at the indices from .. to - 1
RECURSIVE BaseValue(_, _, _, _)
BaseValue(s, from, to, b) ==
  IF to <= from THEN 0
  ELSE BaseValue(s, from, to - 1, b) * b + DigitVal(CharAt(s, to - 1))

\* strchr(s + p, c): the index of the first c at or after index p
RECURSIVE strchr(_, _, _)
strchr(s, p, c) ==
  IF p >= Len(s) THEN NullPtr
  ELSE IF s[p + 1] = c THEN p
  ELSE strchr(s, p + 1, c)

\* lines 61: sscanf(s + p, "%" PRIi64, out), a conversion by %i: an optional
\* sign, then base 8 after a leading 0 and base 10 otherwise (base 16 takes an
\* 'x', which no validated string holds); r is the value returned
sscanf_i(s, p) ==
  LET neg == CharAt(s, p) = "-"
      d0 == IF neg THEN p + 1 ELSE p
      octal == CharAt(s, d0) = "0"
      e == RunEnd(s, d0, IF octal THEN OctDigits ELSE Digits)
      v == BaseValue(s, d0, e, IF octal THEN 8 ELSE 10)
  IN  IF ~isdigit(CharAt(s, d0)) THEN [r |-> 0, out |-> 0]
      ELSE [r |-> 1, out |-> IF neg THEN -v ELSE v]

\* lines 58-76: NextInt64(&ints, &out) with *ints = s + p (or NULL); r is the
\* value returned, next the new *ints
NextInt64(s, p) ==
  IF p = NullPtr THEN [r |-> 0, out |-> 0, next |-> p]
  ELSE LET sc == sscanf_i(s, p)
           next_comma == strchr(s, p, ",")
           next_colon == strchr(s, p, ":")
       IN  IF sc.r = 1
           THEN [r |-> 1, out |-> sc.out,
                 next |-> IF next_comma = NullPtr /\ next_colon = NullPtr THEN NullPtr
                          ELSE IF next_comma = NullPtr THEN next_colon + 1
                          ELSE IF next_colon = NullPtr THEN next_comma + 1
                          ELSE Min(next_comma, next_colon) + 1]
           ELSE [r |-> 0, out |-> 0, next |-> p]

\* lines 83-88: strtoimax(s + p, .., 10) leaves errno at 0
IsValidInt64(s, p) ==
  LET neg == CharAt(s, p) = "-"
      d0 == IF neg THEN p + 1 ELSE p
      v == BaseValue(s, d0, RunEnd(s, d0, Digits), 10)
  IN  InOff(IF neg THEN -v ELSE v)

\* lines 115-150: the state machine from index p on
RECURSIVE ValidFrom(_, _, _, _, _)
ValidFrom(s, p, state, negative_valid, number_start) ==
  LET c == CharAt(s, p)
  IN  CASE state = 0 ->
             IF c = "-" /\ negative_valid
             THEN ValidFrom(s, p + 1, 1, negative_valid, number_start)
             ELSE IF isdigit(c)
             THEN ValidFrom(s, p + 1, 2, negative_valid, number_start)
             ELSE FALSE
        [] state = 1 ->
             IF isdigit(c) THEN ValidFrom(s, p + 1, 2, negative_valid, number_start)
             ELSE FALSE
        [] state = 2 ->
             IF isdigit(c) THEN ValidFrom(s, p + 1, 2, negative_valid, number_start)
             ELSE IF ~IsValidInt64(s, number_start) THEN FALSE
             ELSE IF (negative_valid /\ c = ":") \/ (~negative_valid /\ c = ",")
             THEN ValidFrom(s, p + 1, 0, ~negative_valid, p + 1)
             ELSE c = Nul

\* lines 93-151
PositionsStringIsValid(s) ==
  IF s = <<>> THEN TRUE ELSE ValidFrom(s, 0, 0, TRUE, 0)

\* ------------------------------------------------------ PositionedRead
\* line 187: the ceiling 0x40000000 (2^30 of an int64_t), in the widths here
ReadCeiling == 2 ^ (WordBits - 2)

\* lines 209 and 255: a negative offset is a sparse hole
OffsetSparseNever(offset) == FALSE
OffsetSparse(offset) == offset < 0

\* lines 171-184: the loop that adds up the lengths, from *p = s + p; the sum
\* is an int64_t, an overflowing sum takes the two's-complement value
RECURSIVE LengthLoop(_, _, _)
LengthLoop(s, p, length) ==
  LET a == NextInt64(s, p)
      b == NextInt64(s, a.next)
  IN  IF a.r = 0 THEN [err |-> "none", length |-> length]
      ELSE IF b.r = 0 THEN [err |-> "bad length parse", length |-> length]
      ELSE IF b.out < 0 THEN [err |-> "length can't be negative", length |-> length]
      ELSE LengthLoop(s, b.next, Wrap(length + b.out))

\* line 191: the argument of malloc, length + 1 as a size_t
AllocSize(length) == (length + 1) % (2 ^ WordBits)

\* malloc can give a block of at most PTRDIFF_MAX bytes
MallocCanSucceed(size) == size <= MaxOff

\* the byte at offset k of the file read by PositionedRead, PosFileLen long
PosFileByte(k) == (k % (Radix - 1)) + 1

\* line 220: the values pread(fd, buf_tail, count, off) can return; it stores
\* that many bytes of the file at buf_tail
PreadReturns(off, count) ==
  LET full == Max(0, Min(count, PosFileLen - off))
  IN  {-1, full} \cup (IF full > 0 THEN {full - 1} ELSE {})

\* what a call of PositionedRead gave: the error it ended with ("none": it
\* returned buf), the length computed, the size allocated (-1: no allocation),
\* the bytes stored from buf on, and the preads issued
RdEnd(err, length, alloc) ==
  [err |-> err, length |-> length, alloc |-> alloc, buf |-> <<>>, log |-> <<>>]

\* lines 203-225: the loop that reads the ranges, from *p = s + p
RECURSIVE ReadLoop(_, _, _)
ReadLoop(s, p, st) ==
  LET a == NextInt64(s, p)
      b == NextInt64(s, a.next)
      After(rc) ==
        LET st2 == [st EXCEPT
                      !.buf = st.buf \o [k \in 1 .. rc |-> PosFileByte(a.out + k - 1)],
                      !.log = Append(st.log, [off |-> a.out, len |-> b.out, rc |-> rc,
                                              tail |-> Len(st.buf)])]
        IN  IF rc # b.out THEN {[st2 EXCEPT !.err = "read failed"]}
            ELSE ReadLoop(s, b.next, st2)
  IN  IF a.r = 0 THEN {st}
      ELSE IF OffsetSparse(a.out)
      THEN {[st EXCEPT !.err = "no support for sparse positions yet during read"]}
      ELSE IF b.r = 0 THEN {[st EXCEPT !.err = "bad length parse"]}
      ELSE IF b.out < 0 THEN {[st EXCEPT !.err = "length can't be negative"]}
      ELSE UNION {After(rc) : rc \in PreadReturns(a.out, b.out)}

\* lines 161-229
PositionedRead(s) ==
  IF ~PositionsStringIsValid(s)
  THEN {RdEnd("invalid positions string for read", 0, -1)}
  ELSE
    LET g == LengthLoop(s, 0, 0)
        size == AllocSize(g.length)
    IN  IF g.err # "none" THEN {RdEnd(g.err, g.length, -1)}
        ELSE IF g.length > ReadCeiling
        THEN {RdEnd("Read length too long (exceeds 1 GiB)", g.length, -1)}
        ELSE {RdEnd("malloc failed", g.length, -1)}
             \cup (IF MallocCanSucceed(size)
                   THEN {RdEnd("open failed for read", g.length, size)}
                        \cup ReadLoop(s, 0, RdEnd("none", g.length, size))
                   ELSE {})

\* ------------------------------------------------------ PositionedWrite
\* line 258: the values pwrite(fd, buf, count, off) can return
PwriteReturns(count) ==
  {-1} \cup (IF PwriteCanSucceed(count) THEN {count} ELSE {})
       \cup (IF count > 0 THEN {Min(count - 1, MaxInt)} ELSE {})

\* what a call of PositionedWrite gave: the error it ended with, whether the
\* file was opened (and created), buf - new and new_size as they stand, and the
\* ranges gone through: for each the part of the buffer it names
\* (src .. src + len - 1), the file offset, whether it was skipped as a hole, and
\* if not the value pwrite returned
WrEnd(err, created, new_size) ==
  [err |-> err, created |-> created, src |-> 0, rem |-> new_size, log |-> <<>>]

\* lines 243-268: the loop over the ranges, from positions = s + p
RECURSIVE WriteLoop(_, _, _)
WriteLoop(s, p, st) ==
  LET a == NextInt64(s, p)
      b == NextInt64(s, a.next)
      Entry(rc) == [src |-> st.src, len |-> b.out, off |-> a.out, rc |-> rc,
                    hole |-> OffsetSparse(a.out)]
      Go(rc) ==
        WriteLoop(s, b.next, [st EXCEPT !.src = Wrap(st.src + b.out),
                                        !.rem = Wrap(st.rem - b.out),
                                        !.log = Append(st.log, Entry(rc))])
  IN  IF a.r = 0
      THEN {[st EXCEPT !.err = IF st.rem # 0
                                THEN "output position length doesn't match new size"
                                ELSE "none"]}
      ELSE IF b.r = 0 THEN {[st EXCEPT !.err = "bad length parse for write"]}
      ELSE IF b.out < 0 THEN {[st EXCEPT !.err = "length can't be negative for write"]}
      ELSE IF OffsetSparse(a.out) THEN Go(0)
      ELSE UNION {IF rc # b.out
                  THEN {[st EXCEPT !.err = "write failed",
                                   !.log = Append(st.log, Entry(rc))]}
                  ELSE Go(rc) : rc \in PwriteReturns(b.out)}

\* lines 231-270
PositionedWrite(s, new_size) ==
  IF ~PositionsStringIsValid(s)
  THEN {WrEnd("invalid positions string for write", FALSE, new_size)}
  ELSE {WrEnd("open failed for write", FALSE, new_size)}
       \cup WriteLoop(s, 0, WrEnd("none", TRUE, new_size))

\* ------------------------------------------------------------- inputs
\* the decimal numeral of v >= 0
DigitChar(d) == CHOOSE c \in Digits : DigitVal(c) = d
RECURSIVE Numeral(_)
Numeral(v) ==
  IF v < 10 THEN <<DigitChar(v)>> ELSE Numeral(v \div 10) \o <<DigitChar(v % 10)>>

\* every string of up to MaxStr of these characters
PosChars == {"0", "1", "9", "-", ",", ":"}
ShortStrings == UNION {[1 .. n -> PosChars] : n \in 0 .. MaxStr}

\* strings of up to MaxPairs ranges offset:length joined by commas
OffNums == {<<"0">>, <<"1">>, <<"-", "1">>}
LenNums == {<<"2">>, Numeral(MaxOff), <<"0", "1", "0">>, <<"0", "9">>}
Pairs == {o \o <<":">> \o l : o \in OffNums, l \in LenNums}
RECURSIVE Joined(_)
Joined(n) ==
  IF n = 1 THEN Pairs ELSE {a \o <<",">> \o b : a \in Joined(n - 1), b \in Pairs}
PairStrings == UNION {Joined(n) : n \in 1 .. MaxPairs}

\* lines 156-159: the string "1,5:23,4:-1,8:3,7" of the comment
DocExample ==
  <<"1", ",", "5", ":", "2", "3", ",", "4", ":", "-", "1", ",", "8", ":", "3", ",", "7">>

PosStrings == ShortStrings \cup PairStrings \cup {DocExample}

\* the sizes of the new buffer given to PositionedWrite
NewSizes == {0, 2, 4}

\* ------------------------------------------------------------- the calls
\* one call is made with each string
PosInit ==
  /\ PatchStart /\ using_positioning = TRUE /\ seed = 0
  /\ CodecIdle /\ ExIdle
  /\ positions \in PosStrings
  /\ pcall = NoPosCall

\* lines 93-151: the validator on the string
PosValidate ==
  /\ pcall = NoPosCall
  /\ pcall' = [op |-> "valid", ret |-> PositionsStringIsValid(positions)]
  /\ UNCHANGED positions
  /\ UNCHANGED notPosVars

\* the calls of NextInt64 a scan of the string makes, from *ints = s + p until
\* one returns 0: for each the cursor before, the values returned and stored,
\* the cursor after
RECURSIVE ScanFrom(_, _)
ScanFrom(s, p) ==
  LET a == NextInt64(s, p)
      e == [p |-> p, r |-> a.r, out |-> a.out, next |-> a.next]
  IN  IF a.r = 0 THEN <<e>> ELSE <<e>> \o ScanFrom(s, a.next)

\* lines 171-176, 204-213, 243-248: the scan of a string that passed the validator
PosScan ==
  /\ pcall = NoPosCall
  /\ PositionsStringIsValid(positions)
  /\ pcall' = [op |-> "scan", log |-> ScanFrom(positions, 0)]
  /\ UNCHANGED positions
  /\ UNCHANGED notPosVars

\* line 384: old = PositionedRead(argv[1], argv[4], &oldsize)
PosRead ==
  /\ pcall = NoPosCall
  /\ \E e \in PositionedRead(positions) :
       pcall' = [op |-> "read", err |-> e.err, length |-> e.length,
                 alloc |-> e.alloc, buf |-> e.buf, log |-> e.log]
  /\ UNCHANGED positions
  /\ UNCHANGED notPosVars

\* line 451: PositionedWrite(argv[2], argv[5], new, newsize)
PosWrite ==
  /\ pcall = NoPosCall
  /\ \E new_size \in NewSizes :
       \E e \in PositionedWrite(positions, new_size) :
          pcall' = [op |-> "write", size |-> new_size, err |-> e.err,
                    created |-> e.created, src |-> e.src, rem |-> e.rem,
                    log |-> e.log]
  /\ UNCHANGED positions
  /\ UNCHANGED notPosVars

PosNext == PosValidate \/ PosScan \/ PosRead \/ PosWrite

PosSpec == PosInit /\ [][PosNext]_vars


\* ======================================================= claims, bspatch
\* The sign-magnitude value of a word, as mathematics defines it.
RECURSIVE Magnitude(_, _)
Magnitude(buf, k) ==
  IF k = 0 THEN 0
  ELSE (IF k = WordBytes THEN buf[k] % SignBit ELSE buf[k]) * Radix ^ (k - 1)
       + Magnitude(buf, k - 1)

SignMagnitude(buf) ==
  IF buf[WordBytes] >= SignBit THEN -Magnitude(buf, WordBytes)
  ELSE Magnitude(buf, WordBytes)

\* The reference reconstruction: the image, and the positions in old and in
\* the diff and extra streams, after the control triples h, from r.
RECURSIVE RefRun(_, _)
RefRun(r, h) ==
  IF h = <<>> THEN r
  ELSE LET x == Head(h)[1]
           y == Head(h)[2]
           z == Head(h)[3]
           add == [i \in 1 .. x |->
                     (DiffByte(seed, r.dp + i - 1)
                      + (IF r.op + i - 1 >= 0 /\ r.op + i - 1 < oldsize
                         THEN old[r.op + i] ELSE 0)) % Radix]
           ext == [i \in 1 .. y |-> ExtraByte(seed, r.ep + i - 1)]
       IN  RefRun([img |-> r.img \o add \o ext, op |-> Wrap(r.op + x + z),
                   dp |-> r.dp + x, ep |-> r.ep + y], Tail(h))

Reference == RefRun([img |-> <<>>, op |-> 0, dp |-> 0, ep |-> 0], hist)

InLoop == pc \in {"ctrl", "check", "diff", "extra"}
AfterLoop == pc \in {"close", "write", "pwloop", "done"}

\* C1: every control triple that the engine acts on keeps new_pos within
\* [0, N], and every byte stored to the new buffer (diff run, extra run) lands
\* at an index in [0, N), also when new_pos + x or new_pos + y wraps.
C1_StoresInsideNew ==
  /\ (InLoop \/ AfterLoop) => (0 <= newpos /\ newpos <= newsize)
  /\ maxStore <= newsize

\* C2: on success the loop ended with new_pos = N and exactly N bytes of the
\* new buffer were handed to the output step (one write of N bytes, or
\* positioned ranges whose lengths sum to N).
C2_SuccessWritesN ==
  pc = "done" => (newpos = newsize /\ outBytes = newsize)

\* C3: between triples and at the end, the new image, new_pos, old_pos and
\* the stream positions are those of the reference reconstruction: an add run
\* is diff + old (mod 256) where old_pos + i is inside old and diff elsewhere,
\* an extra run is the extra bytes verbatim, new_pos advances by x + y and
\* old_pos by x + z.
C3_Reference ==
  (pc \in {"ctrl", "check", "diff"} \/ AfterLoop) =>
     /\ newpos = Len(Reference.img)
     /\ oldpos = Reference.op
     /\ dpos = Reference.dp
     /\ epos = Reference.ep
     /\ \A k \in 0 .. (newpos - 1) : new[k] = Reference.img[k + 1]
     /\ AfterLoop => Len(Reference.img) = newsize

C3_Witness ==
  /\ pc = "done" /\ Len(hist) = 2
  /\ hist[1][1] > 0 /\ hist[1][2] > 0 /\ hist[2][1] > 0
  /\ oldsize = 1 /\ oldIdx = {0}
  /\ \E k \in 0 .. (newsize - 1) : new[k] = 0

\* C4: the additive step reads old only at indices in [0, old_size), for every
\* old_pos (negative, beyond the end, wrapped); the positions outside that
\* range contribute zero.
C4_OldReadsInRange ==
  /\ \A p \in oldIdx : 0 <= p /\ p < oldsize
  /\ pc = "extra" =>
       \A i \in 0 .. (ctrl[1] - 1) :
          LET p == Wrap(oldpos - ctrl[1]) + i
          IN  ~(0 <= p /\ p < oldsize) =>
                new[newpos - ctrl[1] + i] = DiffByte(seed, dpos - ctrl[1] + i)

C4_Witness ==
  /\ pc = "extra" /\ Len(hist) = 1
  /\ hist[1][3] < 0 /\ Wrap(oldpos - ctrl[1]) < 0
  /\ ctrl[1] > 1 /\ oldIdx # {}

\* C5: a header that is short, has a wrong magic or declares a negative X, Y
\* or N ends the run as a corrupt patch with nothing written to the new file;
\* a field that is negative zero decodes to 0 and is not rejected.
HeaderInvalid(h) ==
  \/ h.avail < HeaderLen
  \/ h.magic # "BSDIFF40"
  \/ SignMagnitude(h.X) < 0 \/ SignMagnitude(h.Y) < 0 \/ SignMagnitude(h.N) < 0

C5_HeaderValidation ==
  header # <<>> =>
    IF HeaderInvalid(header)
    THEN pc = "fail" /\ errKind = "corrupt" /\ outBytes = 0 /\ fdNew = "untouched"
    ELSE pc = "open" /\ newsize = SignMagnitude(header.N)

C5_Witness ==
  /\ header # <<>> /\ pc = "open"
  /\ header.N = NegZero /\ header.X = NegZero /\ newsize = 0

\* C6: a triple with x < 0 or y < 0 fails as a corrupt patch right after it
\* is decoded, with no byte of the diff or extra stream consumed and new,
\* new_pos and old_pos unchanged; a negative z alone is accepted.
C6_NegativeLengths ==
  [][pc = "check" =>
       IF ctrl[1] < 0 \/ ctrl[2] < 0
       THEN /\ pc' = "fail" /\ errKind' = "corrupt"
            /\ UNCHANGED <<new, newpos, oldpos, dpos, epos, maxStore>>
       ELSE pc' = "diff"]_vars

C6_Witness ==
  /\ pc = "fail" /\ errKind = "corrupt" /\ lastRead.s = "ctrl"
  /\ lastRead.got = lastRead.want /\ ci = 0 /\ cpos = 6
  /\ ctrl[1] >= 0 /\ ctrl[2] < 0 /\ Len(hist) = 1 /\ hist[1][3] < 0

\* C7: a read that yields fewer bytes than required (a control word, x diff
\* bytes, y extra bytes) ends the run as a corrupt patch; success is never
\* reached with fewer than N bytes filled; a read that returns all its bytes
\* with the end-of-stream status is accepted.
ReadShort(r) == r.got < r.want
AllFilled == newpos = newsize /\ \A k \in 0 .. (newsize - 1) : new[k] # Uninit

C7_ShortReads ==
  [][/\ (lastRead' # lastRead /\ ReadShort(lastRead')) =>
          (pc' = "fail" /\ errKind' = "corrupt")
     /\ (pc' = "done" \/ pc' = "write") => AllFilled'
     /\ (pc = "ctrl" /\ ~ReadShort(lastRead')
           /\ lastRead'.err \in {"BZ_OK", "BZ_STREAM_END"}) => pc' # "fail"
     /\ (pc \in {"diff", "extra"} /\ lastRead' # lastRead /\ ~ReadShort(lastRead')
           /\ lastRead'.err \in {"BZ_OK", "BZ_STREAM_END"}) => pc' # "fail"
    ]_vars

C7_Witness ==
  /\ pc = "done" /\ cEnd /\ dEnd /\ eEnd
  /\ lastRead.s = "extra" /\ lastRead.err = "BZ_STREAM_END"
  /\ lastRead.got = lastRead.want /\ lastRead.want > 0
  /\ Len(hist) = 2


\* ==================================================== claims, the codec
\* C8: offtin returns the sign-magnitude little-endian value of the word (the
\* magnitude is the sum of b[i]*256^i with the top bit of b[7] masked off,
\* negated when that bit is set); decoding the encoding of v gives v for
\* every v in [-(2^63-1), 2^63-1]; no intermediate value leaves the range of
\* the machine word; both encodings of zero decode to 0.
C8_Offtin ==
  cstage = "decoded" =>
    /\ cout = SignMagnitude(cword)
    /\ csrc # <<>> => cout = csrc[1]
    /\ \A k \in 1 .. Len(csteps) : InOff(csteps[k]) /\ InOff(-csteps[k])
    /\ Len(csteps) = WordBytes
    /\ (cword = ZeroWord \/ cword = NegZero) => cout = 0

C8_Witness ==
  /\ cstage = "decoded" /\ csrc = <<-MaxOff>> /\ cout = -MaxOff
  /\ cword[WordBytes] = Radix - 1


\* ======================================================= claims, extent files
\* the byte of the view at logical position p: extent k holds the positions
\* PrefixPrec(k) .. PrefixTotal(k) - 1
ViewByte(p) ==
  LET k == CHOOSE e \in 0 .. (ex_count - 1) : PrefixPrec(e) <= p /\ p < PrefixTotal(e)
  IN  IF ExOff(k) < 0 THEN 0 ELSE file_data[ExOff(k) + (p - PrefixPrec(k)) + 1]

\* every read(2) the last call issued returned the count it was asked for
ReadsFull ==
  \A i \in DOMAIN xcall.log :
     xcall.log[i].c = "read" => xcall.log[i].ret = xcall.log[i].count

\* every lseek(2) the last call issued succeeded
SeeksOk ==
  \A i \in DOMAIN xcall.log : xcall.log[i].c = "lseek" => xcall.log[i].ret >= 0

ReadIsConcatenation ==
  LET p == xcall.from
      n == Min(xcall.size, total_ex_len - p)
  IN  /\ xcall.ret = n
      /\ xcall.data = [k \in 1 .. n |-> ViewByte(p + k - 1)]
      /\ curr_pos = p + n

\* C9: after any sequence of reads, writes and seeks (successful, short or
\* failed) the cursor is well formed: curr_ex_idx is in [0, ex_count];
\* curr_ex_pos is in [0, len[curr_ex_idx]] when curr_ex_idx < ex_count and is 0
\* when curr_ex_idx = ex_count; curr_pos is the total length of the extents
\* before curr_ex_idx plus curr_ex_pos; and 0 <= curr_pos <= L.
C9_CursorInvariant ==
  /\ 0 <= curr_ex_idx /\ curr_ex_idx <= ex_count
  /\ curr_ex_idx < ex_count =>
       (0 <= curr_ex_pos /\ curr_ex_pos <= ExLen(curr_ex_idx))
  /\ curr_ex_idx = ex_count => curr_ex_pos = 0
  /\ curr_pos = PrefixPrec(curr_ex_idx) + curr_ex_pos
  /\ 0 <= curr_pos /\ curr_pos <= total_ex_len

\* a short write that crossed from one extent into the middle of the next
C9_Witness ==
  /\ xcall.op = "write" /\ 0 < xcall.ret /\ xcall.ret < xcall.size
  /\ 0 < curr_ex_idx /\ curr_ex_idx < ex_count
  /\ 0 < curr_ex_pos /\ curr_ex_pos < ExLen(curr_ex_idx)
  /\ curr_pos < total_ex_len

\* C10 (as amended): provided the underlying lseeks succeed and the underlying
\* reads return full counts, a read of s bytes at logical position p returns
\* min(s, L - p) bytes, which are the bytes of the in-order concatenation of the
\* extents (file bytes for a real extent, zeros for a sparse one), and the
\* logical position advances by the count returned.
C10_ReadsConcatenation ==
  (xcall.op = "read" /\ ReadsFull /\ SeeksOk) => ReadIsConcatenation

\* a read of the whole view across a sparse extent and two real ones
C10_Witness ==
  /\ xcall.op = "read" /\ ReadsFull /\ SeeksOk
  /\ ex_count = 3 /\ ExOff(0) < 0 /\ ExOff(1) >= 0 /\ ExLen(1) > 0 /\ ExOff(2) > 0
  /\ xcall.from = 0 /\ xcall.ret = total_ex_len
  /\ xcall.data[1] = 0 /\ xcall.data[ExLen(0) + 1] # 0
  /\ xcall.data[total_ex_len] # 0

\* C10 (as stated): the same with full underlying reads as the only proviso;
\* a failed lseek ends the read early although no underlying read was short.
C10_AsStated ==
  (xcall.op = "read" /\ ReadsFull) => ReadIsConcatenation


\* the s bytes from logical position p lie inside one sparse extent
InSparseExtent(p, s) ==
  /\ s > 0
  /\ \E k \in 0 .. (ex_count - 1) :
        ExOff(k) < 0 /\ PrefixPrec(k) <= p /\ p + s <= PrefixTotal(k)

\* C11: a write of bytes that fall wholly within a sparse extent returns their
\* count, advances the logical position by it, issues no lseek and no write on
\* the descriptor, and leaves the file content, the descriptor's offset and the
\* tracked position curr_file_pos as they were.
C11_SparseWrite ==
  (xcall.op = "write" /\ InSparseExtent(xcall.from, xcall.size)) =>
     /\ xcall.ret = xcall.size
     /\ curr_pos = xcall.from + xcall.size
     /\ xcall.log = <<>>
     /\ {"file_data", "fd_pos", "curr_file_pos"} \subseteq xcall.kept
     /\ xcall.changed = {}

\* a write of the second byte of a sparse extent that follows a real one, with
\* the descriptor's position tracked
C11_Witness ==
  /\ xcall.op = "write" /\ InSparseExtent(xcall.from, xcall.size)
  /\ xcall.ret = 1 /\ curr_pos = xcall.from + 1
  /\ curr_ex_idx > 0 /\ curr_ex_pos = ExLen(curr_ex_idx)
  /\ curr_file_pos > 0
  /\ \E k \in 1 .. Len(file_data) : file_data[k] # WriteByte


\* the target of a seek as the integers give it, without any wrapping
ExactTarget(call) ==
  IF call.log[1] = "SEEK_CUR" THEN call.from + call.size
  ELSE IF call.log[1] = "SEEK_END" THEN total_ex_len + call.size
  ELSE call.size

\* C12: exfile_seek(offset, whence) takes as target offset, curr_pos + offset
\* or L + offset; a target outside [0, L] gives an error and leaves curr_pos,
\* curr_ex_idx, curr_ex_pos and curr_file_pos unchanged; a target in [0, L] is
\* reported as the new position and becomes curr_pos; also for offsets whose
\* sum with curr_pos or L does not fit the word.
C12_SeekRange ==
  xcall.op = "seek" =>
     IF ExactTarget(xcall) < 0 \/ ExactTarget(xcall) > total_ex_len
     THEN /\ xcall.ret = -1
          /\ {"cursor", "curr_file_pos"} \subseteq xcall.kept
          /\ curr_pos = xcall.from
     ELSE /\ xcall.ret = ExactTarget(xcall)
          /\ curr_pos = ExactTarget(xcall)

\* a relative seek from inside an extent whose sum does not fit the word
C12_Witness ==
  /\ xcall.op = "seek" /\ xcall.log = <<"SEEK_CUR">> /\ xcall.size = MaxOff
  /\ xcall.from > 0 /\ xcall.from + xcall.size > MaxOff
  /\ xcall.ret = -1 /\ curr_pos = xcall.from
  /\ curr_ex_idx > 0 /\ curr_ex_pos > 0 /\ curr_file_pos > 0

\* C13: from every reachable state seek(0, SEEK_END) succeeds and returns L, the
\* sum of the extent lengths; with the logical position at L (by a seek or by
\* reading or writing up to the end) every read and every write returns 0,
\* issues no system call and leaves the logical position at L.
C13_EndOfView ==
  /\ (xcall.op = "seek" /\ xcall.log = <<"SEEK_END">> /\ xcall.size = 0) =>
        (xcall.ret = total_ex_len /\ curr_pos = total_ex_len)
  /\ (xcall.op \in {"read", "write"} /\ xcall.from = total_ex_len) =>
        (xcall.ret = 0 /\ xcall.log = <<>> /\ curr_pos = total_ex_len)

\* a write asked at the end of a view whose last extent is empty
C13_Witness ==
  /\ xcall.op = "write" /\ xcall.size > 0 /\ xcall.from = total_ex_len
  /\ xcall.ret = 0 /\ curr_pos = total_ex_len /\ curr_ex_idx = ex_count
  /\ total_ex_len > 0 /\ ExLen(ex_count - 1) = 0


\* the extent that holds logical position p, for p in [0, L)
ExtentOf(p) ==
  CHOOSE e \in 0 .. (ex_count - 1) : PrefixPrec(e) <= p /\ p < PrefixTotal(e)

\* file offset at (counted from 0) lies in a real extent of the view
InRealExtent(at) ==
  \E e \in 0 .. (ex_count - 1) :
     ExOff(e) >= 0 /\ ExOff(e) <= at /\ at < ExOff(e) + ExLen(e)

\* C14: a write of s bytes at logical position p transfers at most L - p bytes;
\* every write(2) it issues is for the real extent that holds the logical
\* position being written, at the file offset of that position, and ends inside
\* the extent; the file changes at offsets inside real extents only.
C14_WritesInsideExtents ==
  xcall.op = "write" =>
     /\ xcall.ret <= total_ex_len - xcall.from
     /\ \A n \in DOMAIN xcall.log :
          LET w == xcall.log[n]
              e == ExtentOf(w.lpos)
          IN  w.c = "write" =>
                /\ w.lpos < total_ex_len
                /\ ExOff(e) >= 0
                /\ w.at = ExOff(e) + (w.lpos - PrefixPrec(e))
                /\ w.at + w.count <= ExOff(e) + ExLen(e)
     /\ \A k \in xcall.changed : InRealExtent(k)

\* a write that asks for more than is left of the view, goes through to its end
\* and leaves a byte of the file outside the extents as it was
C14_Witness ==
  /\ xcall.op = "write" /\ xcall.from > 0
  /\ xcall.size > total_ex_len - xcall.from
  /\ xcall.ret = total_ex_len - xcall.from /\ xcall.ret > 1
  /\ \E n \in DOMAIN xcall.log : xcall.log[n].c = "write" /\ xcall.log[n].ret > 0
  /\ \E k \in DOMAIN file_data : file_data[k] = WriteByte
  /\ \E k \in DOMAIN file_data : ~InRealExtent(k - 1) /\ file_data[k] = File0[k]

\* C15: exfile_write never returns a negative count, whatever the underlying
\* lseek and write do; exfile_read returns -1 only when an underlying call
\* failed before any byte of the call was transferred, and nothing below -1.
C15_ReturnSigns ==
  /\ xcall.op = "write" => xcall.ret >= 0
  /\ xcall.op = "read" => xcall.ret >= -1
  /\ (xcall.op = "read" /\ xcall.ret = -1) =>
        /\ xcall.log # <<>>
        /\ xcall.log[Len(xcall.log)].ret = -1
        /\ xcall.log[Len(xcall.log)].done = 0
        /\ xcall.data = <<>>
        /\ curr_pos = xcall.from

\* a write whose first underlying write fails
C15_Witness ==
  /\ xcall.op = "write" /\ xcall.size > 0 /\ xcall.ret = 0
  /\ xcall.log # <<>>
  /\ xcall.log[Len(xcall.log)].c = "write"
  /\ xcall.log[Len(xcall.log)].ret = -1
  /\ curr_pos = xcall.from


\* the last call was a read or a write in which a system call failed
CallFailed ==
  /\ xcall.op \in {"read", "write"}
  /\ xcall.log # <<>>
  /\ xcall.log[Len(xcall.log)].ret = -1

\* C16: when an lseek, a read or a write fails inside exfile_io, the error is
\* returned if nothing was transferred so far in the call; otherwise the partial
\* count is returned and curr_file_pos is set to -1.
C16_FailureMarksUnknown ==
  CallFailed =>
    IF xcall.log[Len(xcall.log)].done = 0
    THEN xcall.ret = error_ret_val(xcall.op = "read")
    ELSE xcall.ret = xcall.log[Len(xcall.log)].done /\ curr_file_pos = -1

\* some lseek(2) of the last call failed
SeekFailed ==
  \E n \in DOMAIN xcall.log : xcall.log[n].c = "lseek" /\ xcall.log[n].ret = -1

\* some read(2) of the last call failed or returned less than it was asked for
ReadCutShort ==
  \E n \in DOMAIN xcall.log :
     xcall.log[n].c = "read" /\ xcall.log[n].ret < xcall.log[n].count

\* C17 (as amended): a read returns fewer bytes than requested only when the
\* end of the view was reached, or an underlying lseek failed, or an underlying
\* read failed or returned fewer bytes than it was asked for; in every other
\* case the full request is returned, and never more.
C17_ShortReadCauses ==
  xcall.op = "read" =>
    /\ xcall.ret <= xcall.size
    /\ (0 <= xcall.ret /\ xcall.ret < xcall.size) =>
         (curr_pos = total_ex_len \/ SeekFailed \/ ReadCutShort)

\* a read cut short inside the view by a short underlying read, after bytes of
\* an earlier extent, with every lseek succeeding
C17_Witness ==
  /\ xcall.op = "read" /\ 0 < xcall.ret /\ xcall.ret < xcall.size
  /\ curr_pos < total_ex_len /\ ~SeekFailed
  /\ xcall.log[Len(xcall.log)].c = "read"
  /\ xcall.log[Len(xcall.log)].ret >= 0
  /\ xcall.log[Len(xcall.log)].ret < xcall.log[Len(xcall.log)].count
  /\ xcall.log[Len(xcall.log)].done > 0

\* C17 (as stated): fewer bytes than requested only at the end of the view or
\* after a failed underlying lseek.
C17_AsStated ==
  (xcall.op = "read" /\ 0 <= xcall.ret /\ xcall.ret < xcall.size) =>
     (curr_pos = total_ex_len \/ SeekFailed)

\* the ceiling of 1 GiB, in the widths of this model: one below the largest
\* new size a header declares here
SanityCeiling == MaxNew - 1

\* C18: a patch whose header declares a new size above the ceiling is refused
\* with an error, before the new buffer is allocated and before the loop runs.
C18_SizeCeiling ==
  newsize > SanityCeiling => (pc \in {"open", "fail"} /\ new = <<>>)


\* the file offset of logical position p, extent.off + curr_ex_pos
FileOffsetOf(p) == ExOff(ExtentOf(p)) + (p - PrefixPrec(ExtentOf(p)))

\* C20: every read(2) and write(2) of exfile_io happens with the descriptor at
\* extent.off + curr_ex_pos; an lseek to that offset is issued exactly when the
\* tracked curr_file_pos differs from it, so always when curr_file_pos is -1;
\* and curr_file_pos, when it is not -1, is the descriptor's offset, at each of
\* these points and between the calls.
C20_PhysicalPosition ==
  /\ curr_file_pos # -1 => curr_file_pos = fd_pos
  /\ xcall.op \in {"read", "write"} =>
       \A n \in DOMAIN xcall.log :
          LET e == xcall.log[n]
              sought == /\ n > 1
                        /\ xcall.log[n - 1].c = "lseek"
                        /\ xcall.log[n - 1].ret = e.at
                        /\ xcall.log[n - 1].lpos = e.lpos
          IN  /\ e.cfp # -1 => e.cfp = e.fd
              /\ ExOff(ExtentOf(e.lpos)) >= 0
              /\ e.c = "lseek" => (e.at = FileOffsetOf(e.lpos) /\ e.cfp # e.at)
              /\ e.c \in {"read", "write"} =>
                   /\ e.at = FileOffsetOf(e.lpos)
                   /\ sought <=> e.cfp # e.at
                   /\ e.cfp = -1 => sought

\* a call that reads a real extent where the descriptor already stands and then
\* repositions it for the next one
C20_Witness ==
  /\ xcall.op = "read" /\ Len(xcall.log) = 3
  /\ xcall.log[1].c = "read" /\ xcall.log[1].cfp = xcall.log[1].at
  /\ xcall.log[1].ret = xcall.log[1].count
  /\ xcall.log[2].c = "lseek" /\ xcall.log[2].ret >= 0
  /\ xcall.log[3].c = "read" /\ xcall.log[3].ret > 0
  /\ curr_file_pos = fd_pos /\ fd_pos # 1

\* C21: exfile_seek issues no system call on the descriptor: it sets only the
\* logical markers curr_pos, curr_ex_idx and curr_ex_pos and leaves curr_file_pos,
\* the descriptor's offset and the file as they were; a seek whose target is the
\* current logical position changes no field at all, also with the cursor at
\* the end of an extent, curr_ex_pos = len[curr_ex_idx].
C21_SeekFrame ==
  xcall.op = "seek" =>
     /\ {"curr_file_pos", "fd_pos", "file_data"} \subseteq xcall.kept
     /\ xcall.changed = {}
     /\ xcall.ret = xcall.from => "cursor" \in xcall.kept

\* a seek to the current position with the cursor at the end of an extent that
\* is not empty and is not the last one
C21_Witness ==
  /\ xcall.op = "seek" /\ xcall.ret = xcall.from /\ xcall.ret > 0
  /\ "cursor" \in xcall.kept
  /\ curr_ex_idx < ex_count - 1
  /\ curr_ex_pos = ExLen(curr_ex_idx) /\ curr_ex_pos > 0
  /\ curr_pos < total_ex_len


\* ==================================================== claims, ex_arr_search
\* extent e holds position p
Holds(e, p) == PrefixPrec(e) <= p /\ p < PrefixTotal(e)

ScanValues(s) ==
  LET sc == ScanFrom(s, 0)
  IN  [k \in 1 .. (Len(sc) - 1) |-> sc[k].out]

\* the ranges of the string: the numbers of the scan taken in pairs
ScanRanges(s) ==
  LET v == ScanValues(s)
  IN  [k \in 1 .. (Len(v) \div 2) |-> [off |-> v[2 * k - 1], len |-> v[2 * k]]]

\* the sum of the len fields of the first n entries of a log
RECURSIVE LenSum(_, _)
LenSum(log, n) == IF n = 0 THEN 0 ELSE LenSum(log, n - 1) + log[n].len

ExactLength(s) == LenSum(ScanRanges(s), Len(ScanRanges(s)))

\* C23: PositionedRead ends in an error on every validated string whose lengths
\* sum to more than the ceiling (1 GiB), so the buffer it allocates has at most
\* ceiling + 1 bytes and the bytes it then reads are never more than were
\* allocated; also for strings whose running sum of lengths leaves the range of
\* the 64-bit word.
C23_ReadCeiling ==
  (pcall.op = "read" /\ PositionsStringIsValid(positions)) =>
     /\ ExactLength(positions) > ReadCeiling => pcall.err # "none"
     /\ pcall.alloc # -1 =>
          (pcall.alloc <= ReadCeiling + 1 /\ Len(pcall.buf) <= pcall.alloc)


\* the delimiters of a string in their order, and the fields between them
IsDelim(c) == c \in {",", ":"}
Delims(s) == SelectSeq(s, IsDelim)
RECURSIVE Fields(_)
Fields(s) ==
  LET d == {i \in DOMAIN s : IsDelim(s[i])}
      i == CHOOSE x \in d : \A y \in d : x <= y
  IN  IF d = {} THEN <<s>>
      ELSE <<SubSeq(s, 1, i - 1)>> \o Fields(SubSeq(s, i + 1, Len(s)))

\* a field is a base-10 numeral, with a sign if signed; its value
IsNumeral(f, signed) ==
  LET d0 == IF signed /\ CharAt(f, 0) = "-" THEN 1 ELSE 0
  IN  d0 < Len(f) /\ \A k \in d0 .. (Len(f) - 1) : isdigit(CharAt(f, k))
DecimalOf(f) ==
  IF CharAt(f, 0) = "-" THEN -BaseValue(f, 1, Len(f), 10)
  ELSE BaseValue(f, 0, Len(f), 10)

\* lines 153-159: ranges offset,length joined by ':', numbers that fit the word
DocForm(s) ==
  LET f == Fields(s)
      d == Delims(s)
  IN  /\ Len(f) % 2 = 0
      /\ \A k \in DOMAIN d : d[k] = (IF k % 2 = 1 THEN "," ELSE ":")
      /\ \A k \in DOMAIN f : IsNumeral(f[k], k % 2 = 1) /\ InOff(DecimalOf(f[k]))

DocRanges(s) ==
  LET f == Fields(s)
  IN  [k \in 1 .. (Len(f) \div 2) |->
         [off |-> DecimalOf(f[2 * k - 1]), len |-> DecimalOf(f[2 * k])]]

\* the buffer the comment describes: the bytes of each range from the file,
\* zeros for an offset of -1
RECURSIVE DocBuffer(_, _)
DocBuffer(rs, n) ==
  IF n = 0 THEN <<>>
  ELSE DocBuffer(rs, n - 1)
       \o [k \in 1 .. rs[n].len |->
             IF rs[n].off = -1 THEN 0 ELSE PosFileByte(rs[n].off + k - 1)]

\* every range of the string is a hole or lies in the file, and the lengths
\* sum to no more than the ceiling
DocReadable(s) ==
  LET rs == DocRanges(s)
  IN  /\ \A k \in DOMAIN rs :
           rs[k].off = -1 \/ (rs[k].off >= 0 /\ rs[k].off + rs[k].len <= PosFileLen)
      /\ LenSum(rs, Len(rs)) <= ReadCeiling

\* the errors that malloc, open and pread cause
ReadEnvErrors == {"malloc failed", "open failed for read", "read failed"}

\* C24: a positions string in the documented form, ranges 'offset,length'
\* joined by ':' with -1 as the offset of a sparse hole, passes the validator,
\* and PositionedRead returns for it the buffer the comment describes: for
\* "1,5:23,4:-1,8:3,7" 5 bytes from offset 1, 4 bytes from offset 23, 8 zero
\* bytes, 7 bytes from offset 3.
C24_DocumentedForm ==
  /\ (pcall.op = "valid" /\ DocForm(positions)) => pcall.ret
  /\ (pcall.op = "read" /\ DocForm(positions) /\ DocReadable(positions)) =>
        /\ pcall.err \in {"none"} \cup ReadEnvErrors
        /\ pcall.err = "none" =>
             pcall.buf = DocBuffer(DocRanges(positions), Len(DocRanges(positions)))


\* C25: every non-empty string that passes PositionsStringIsValid is made of
\* whole pairs: an even number of base-10 numerals, each fitting the signed
\* 64-bit word, a '-' only on the first numeral of a pair, no delimiter at the
\* end; so a scan by NextInt64 in pairs never runs out of numbers inside a pair
\* and never gives a negative length.
C25_CompletePairs ==
  /\ (pcall.op = "valid" /\ pcall.ret /\ positions # <<>>) =>
        LET f == Fields(positions)
        IN  /\ Len(f) % 2 = 0
            /\ \A k \in DOMAIN f :
                 IsNumeral(f[k], k % 2 = 1) /\ InOff(DecimalOf(f[k]))
  /\ pcall.op = "scan" =>
        /\ (Len(pcall.log) - 1) % 2 = 0
        /\ \A k \in 1 .. (Len(pcall.log) - 1) : k % 2 = 0 => pcall.log[k].out >= 0


\* C26: PositionedWrite never hands to pwrite a part of the source that goes
\* beyond the new buffer buf[0, new_size): at every pwrite the lengths of the
\* ranges gone through so far, the current one included, sum to new_size at
\* most; and a string whose lengths do not sum to new_size ends in an error.
C26_WriteInsideBuffer ==
  (pcall.op = "write" /\ PositionsStringIsValid(positions)) =>
     /\ \A n \in DOMAIN pcall.log :
          ~pcall.log[n].hole =>
             /\ LenSum(pcall.log, n) <= pcall.size
             /\ 0 <= pcall.log[n].src
             /\ pcall.log[n].src + pcall.log[n].len <= pcall.size
     /\ ExactLength(positions) # pcall.size => pcall.err # "none"


\* the index at which field k of a string starts
RECURSIVE FieldStart(_, _)
FieldStart(f, k) == IF k = 1 THEN 0 ELSE FieldStart(f, k - 1) + Len(f[k - 1]) + 1

\* C27: on a string that passed PositionsStringIsValid, which checks the
\* numerals as base-10 numbers, every value NextInt64 returns is the base-10
\* value of its numeral, also for numerals with leading zeros ("010", "09"), and
\* the cursor moves to the character after the delimiter that ends the numeral.
C27_ScanValues ==
  pcall.op = "scan" =>
    LET f == Fields(positions)
    IN  \A k \in 1 .. (Len(pcall.log) - 1) :
           /\ pcall.log[k].p = FieldStart(f, k)
           /\ pcall.log[k].out = DecimalOf(f[k])
           /\ pcall.log[k].next = IF k < Len(f) THEN FieldStart(f, k + 1) ELSE NullPtr


\* ============================================ claims, bspatch (continued)
\* C28: bspatch does not open, create, truncate or write the new file before
\* the loop has ended with new_pos = N: a failure while the header is read, the
\* streams are opened, the old image is read or the triples are processed
\* leaves the new file not created and not written.
C28_NewFileLate ==
  [][/\ (fdNew' # fdNew \/ outBytes' # outBytes) =>
          (pc \in {"write", "pwloop"} /\ newpos = newsize)
     /\ (pc \in {"start", "open", "ctrl", "check", "diff", "extra", "close"}) =>
          (fdNew' = "untouched" /\ outBytes' = 0)
    ]_vars

\* a run that fails in the loop after a whole triple, with bytes stored to the
\* new buffer and the new file untouched
C28_Witness ==
  /\ pc = "fail" /\ errKind = "corrupt" /\ Len(hist) >= 1 /\ maxStore > 0
  /\ newpos < newsize /\ lastRead.s = "extra"
  /\ fdNew = "untouched" /\ outBytes = 0

\* C29: the reconstruction loop terminates and ends either in success (the
\* loop test fails and main goes on to close the streams) or in a
\* corrupt-patch error: each iteration consumes exactly three words of the
\* control stream, and the three streams are only ever consumed forward.
C29_LoopTerminates ==
  /\ [](pc = "ctrl" => cpos = 3 * Len(hist) + ci)
  /\ [](pc \in {"check", "diff", "extra"} => cpos = 3 * Len(hist) + 3)
  /\ [][cpos' >= cpos /\ dpos' >= dpos /\ epos' >= epos]_vars
  /\ [][(InLoop /\ ~InLoop') =>
          (pc' = "close" \/ (pc' = "fail" /\ errKind' = "corrupt"))]_vars
  /\ InLoop ~> ~InLoop

====
